---- MODULE Spec2Model ----
(***************************************************************************)
(* A model of the strided-rs benchmark suite:                              *)
(*   src/src/main.rs                  the suite (parser, tree builder,     *)
(*                                    run_instance, main)                  *)
(*   src/micro_bench/step408_bench.rs the step-408 micro-benchmark (bench, *)
(*                                    main)                                *)
(* Characters are one-character strings, strings and Vec<char> are         *)
(* sequences of them, and Rust's 0-based positions are kept as they are    *)
(* (position k of a Vec is element k+1 of the sequence).                   *)
(***************************************************************************)
EXTENDS Integers, Sequences, FiniteSets

VARIABLES
    \* parse_format_string, called on its own
    s, parsed, ppc,
    \* build_contraction_tree, called on its own
    input_indices, path, nodes, result, tpc, why,
    \* main.rs: main and run_instance
    instances, sIdx, iIdx, run, out, mpc, mwhy,
    \* step408_bench.rs: bench, called on its own
    warmup, nruns, warmed, times, stats, bpc,
    \* step408_bench.rs: main
    upc, meds, b_perm, a_perm, ia_canon, ib_canon

parseVars == <<s, parsed, ppc>>
treeVars  == <<input_indices, path, nodes, result, tpc, why>>
mainVars  == <<instances, sIdx, iIdx, run, out, mpc, mwhy>>
benchVars == <<warmup, nruns, warmed, times, stats, bpc>>
microVars == <<upc, meds, b_perm, a_perm, ia_canon, ib_canon>>
vars == <<parseVars, treeVars, mainVars, benchVars, microVars>>

(***************************************************************************)
(* Bounds of the model.                                                    *)
(***************************************************************************)
\* longest format string given to parse_format_string on its own
MaxLen == 5
\* most operands given to build_contraction_tree on its own
MaxN == 4
\* most instance files loaded by main
MaxInstances == 2
\* largest elapsed time a clock reading yields
MaxSample == 2
\* most warmup and measured runs asked of bench on its own
MaxWarmup == 1
MaxRuns == 7

Samples == 0..MaxSample

(***************************************************************************)
(* Helpers on sequences.                                                   *)
(***************************************************************************)
Last(q) == q[Len(q)]

\* Vec::remove(k), k a 0-based position < len
RemoveAt(q, k) == SubSeq(q, 1, k) \o SubSeq(q, k + 2, Len(q))

Range(q) == {q[k] : k \in 1..Len(q)}

RECURSIVE SeqsUpTo(_, _)
SeqsUpTo(S, k) ==
    IF k = 0 THEN {<<>>}
    ELSE LET shorter == SeqsUpTo(S, k - 1)
         IN  shorter \cup {Append(q, x) : q \in {r \in shorter : Len(r) = k - 1}, x \in S}

(***************************************************************************)
(* parse_format_string                                                     *)
(***************************************************************************)
Alphabet == {"a", ",", "-", ">"}

\* str::split_once("->"): the position (1-based) of the first "->", 0 if none
RECURSIVE FindArrowFrom(_, _)
FindArrowFrom(str, k) ==
    IF k + 1 > Len(str) THEN 0
    ELSE IF str[k] = "-" /\ str[k + 1] = ">" THEN k
    ELSE FindArrowFrom(str, k + 1)

\* the rsplit_once slip: the last "->" instead of the first
RECURSIVE FindLastArrowFrom(_, _)
FindLastArrowFrom(str, k) ==
    IF k < 1 THEN 0
    ELSE IF k + 1 <= Len(str) /\ str[k] = "-" /\ str[k + 1] = ">" THEN k
    ELSE FindLastArrowFrom(str, k - 1)

FindLastArrow(str) == FindLastArrowFrom(str, Len(str))

FindArrow(str) == FindArrowFrom(str, 1)

\* str::split(',') followed by chars().collect() on each piece
RECURSIVE SplitComma(_, _)
SplitComma(str, acc) ==
    IF str = <<>> THEN acc
    ELSE IF Head(str) = ","
         THEN SplitComma(Tail(str), Append(acc, <<>>))
         ELSE SplitComma(Tail(str),
                         [acc EXCEPT ![Len(acc)] = Append(acc[Len(acc)], Head(str))])

NoParse == [ok |-> FALSE, input_indices |-> <<>>, output_indices |-> <<>>]

\* ok = FALSE is the panic of expect("format_string must contain '->'")
parse_format_string(str) ==
    LET k == FindArrow(str)
    IN  IF k = 0 THEN NoParse
        ELSE [ok |-> TRUE,
              input_indices |-> SplitComma(SubSeq(str, 1, k - 1), <<<<>>>>),
              output_indices |-> SubSeq(str, k + 2, Len(str))]

ParseInit ==
    /\ s \in SeqsUpTo(Alphabet, MaxLen)
    /\ parsed = NoParse
    /\ ppc = "call"

ParseIdle ==
    /\ s = <<>>
    /\ parsed = NoParse
    /\ ppc = "idle"

Parse ==
    /\ ppc = "call"
    /\ parsed' = parse_format_string(s)
    /\ ppc' = IF parsed'.ok THEN "returned" ELSE "panicked"
    /\ UNCHANGED <<s, treeVars, mainVars, benchVars, microVars>>

(***************************************************************************)
(* build_contraction_tree                                                  *)
(***************************************************************************)
Leaf(ids, i) == [kind |-> "Leaf", ids |-> ids, tensor_index |-> i, args |-> <<>>]
Contract(a, b) == [kind |-> "Contract", ids |-> <<>>, tensor_index |-> 0, args |-> <<a, b>>]
NoNode == [kind |-> "None", ids |-> <<>>, tensor_index |-> 0, args |-> <<>>]

\* operands the tree builder is given on its own: the first n of these
OperandPool == << <<"b", "a">>, <<"d", "c", "a">>, <<"f", "e", "b">>,
                  <<"g", "d">>, <<"h", "g">>, <<"k", "h">> >>

\* lines 63-70: one Leaf per operand, tensor_index its position
InitialNodes(ii) == [k \in 1..Len(ii) |-> Leaf(ii[k], k - 1)]

\* lines 73-77: (i, j) = the pair with the smaller position first
PairOrder(pr) == IF pr[1] < pr[2] THEN <<pr[1], pr[2]>> ELSE <<pr[2], pr[1]>>

\* the slip of building the node with its children swapped
NewNodeSwapped(node_i, node_j) == Contract(node_j, node_i)

\* lines 80-82: Contract { args: vec![node_i, node_j] }
NewNode(node_i, node_j) == Contract(node_i, node_j)

\* the slip of removing the lower position first
ContractStepLowFirst(ns, pr) ==
    LET i == PairOrder(pr)[1]
        j == PairOrder(pr)[2]
    IN  IF i >= Len(ns) THEN [panic |-> "remove_i", nodes |-> ns]
        ELSE LET node_i == ns[i + 1]
                 n1 == RemoveAt(ns, i)
             IN  IF j >= Len(n1) THEN [panic |-> "remove_j", nodes |-> n1]
                 ELSE [panic |-> "none",
                       nodes |-> Append(RemoveAt(n1, j), NewNode(node_i, n1[j + 1]))]

\* the slip of taking node_i without removing it
ContractStepKeepI(ns, pr) ==
    LET i == PairOrder(pr)[1]
        j == PairOrder(pr)[2]
    IN  IF j >= Len(ns) THEN [panic |-> "remove_j", nodes |-> ns]
        ELSE LET n1 == RemoveAt(ns, j)
             IN  IF i >= Len(n1) THEN [panic |-> "remove_i", nodes |-> n1]
                 ELSE [panic |-> "none",
                       nodes |-> Append(n1, NewNode(n1[i + 1], ns[j + 1]))]

\* lines 72-83, one turn of the loop; Vec::remove panics on a position >= len
ContractStep(ns, pr) ==
    LET i == PairOrder(pr)[1]
        j == PairOrder(pr)[2]
    IN  IF j >= Len(ns) THEN [panic |-> "remove_j", nodes |-> ns]
        ELSE LET node_j == ns[j + 1]
                 n1 == RemoveAt(ns, j)
             IN  IF i >= Len(n1) THEN [panic |-> "remove_i", nodes |-> n1]
                 ELSE LET node_i == n1[i + 1]
                          n2 == RemoveAt(n1, i)
                      IN  [panic |-> "none", nodes |-> Append(n2, NewNode(node_i, node_j))]

\* the whole function: panic /= "none" is a fatal failure, else node is returned
RECURSIVE BuildFrom(_, _)
BuildFrom(ns, p) ==
    IF p = <<>>
    THEN IF Len(ns) = 1 THEN [panic |-> "none", node |-> ns[1]]
         ELSE [panic |-> "assert_len", node |-> NoNode]
    ELSE LET st == ContractStep(ns, Head(p))
         IN  IF st.panic /= "none" THEN [panic |-> st.panic, node |-> NoNode]
             ELSE BuildFrom(st.nodes, Tail(p))

build_contraction_tree(ii, p) == BuildFrom(InitialNodes(ii), p)

\* positions a path pair may name (one past the last operand included)
Positions == 0..MaxN

TreeInit ==
    /\ \E n \in 1..MaxN : input_indices = SubSeq(OperandPool, 1, n)
    /\ path = <<>>
    /\ nodes = InitialNodes(input_indices)
    /\ result = NoNode
    /\ tpc = "loop"
    /\ why = "none"

TreeIdle ==
    /\ input_indices = <<>>
    /\ path = <<>>
    /\ nodes = <<>>
    /\ result = NoNode
    /\ tpc = "idle"
    /\ why = "none"

\* the for loop takes the next pair of path (path holds the pairs taken so far)
Step ==
    /\ tpc = "loop"
    /\ \E p \in Positions, q \in Positions :
          LET st == ContractStep(nodes, <<p, q>>)
          IN  /\ path' = Append(path, <<p, q>>)
              /\ nodes' = st.nodes
              /\ why' = st.panic
              /\ tpc' = IF st.panic = "none" THEN "loop" ELSE "panicked"
    /\ UNCHANGED <<input_indices, result, parseVars, mainVars, benchVars, microVars>>

\* the slip of leaving out the final assertion
EndOfPathNoAssert ==
    /\ tpc = "loop"
    /\ IF Len(nodes) >= 1
       THEN /\ result' = Last(nodes)
            /\ nodes' = SubSeq(nodes, 1, Len(nodes) - 1)
            /\ tpc' = "returned"
            /\ why' = why
       ELSE /\ tpc' = "panicked"
            /\ why' = "unwrap"
            /\ UNCHANGED <<nodes, result>>
    /\ UNCHANGED <<input_indices, path, parseVars, mainVars, benchVars, microVars>>

\* path is exhausted: lines 85-86, the assertion and nodes.pop().unwrap()
EndOfPath ==
    /\ tpc = "loop"
    /\ IF Len(nodes) = 1
       THEN /\ result' = Last(nodes)
            /\ nodes' = SubSeq(nodes, 1, Len(nodes) - 1)
            /\ tpc' = "returned"
            /\ why' = why
       ELSE /\ tpc' = "panicked"
            /\ why' = "assert_len"
            /\ UNCHANGED <<nodes, result>>
    /\ UNCHANGED <<input_indices, path, parseVars, mainVars, benchVars, microVars>>

(***************************************************************************)
(* Timing: the sort and the rank reads shared by run_instance and bench    *)
(***************************************************************************)
RECURSIVE InsertSorted(_, _)
InsertSorted(q, x) ==
    IF q = <<>> THEN <<x>>
    ELSE IF x <= Head(q) THEN <<x>> \o q
    ELSE <<Head(q)>> \o InsertSorted(Tail(q), x)

\* the slip of leaving the samples unsorted
Unsorted(q) == q

\* Vec::sort / sort_by(partial_cmp): the samples in ascending order
RECURSIVE SortSeq(_)
SortSeq(q) == IF q = <<>> THEN <<>> ELSE InsertSorted(SortSeq(Tail(q)), Head(q))

IsSorted(q) == \A k \in 1..(Len(q) - 1) : q[k] <= q[k + 1]

\* the clock readings of k runs, up to their order (the sort discards it)
RECURSIVE ReadingsFrom(_, _)
ReadingsFrom(k, lo) ==
    IF k = 0 THEN {<<>>}
    ELSE UNION {{<<v>> \o t : t \in ReadingsFrom(k - 1, v)} : v \in lo..MaxSample}

Readings(k) == ReadingsFrom(k, 0)

(***************************************************************************)
(* main.rs: run_instance and main                                          *)
(***************************************************************************)
\* line 138 (the two warmup runs of lines 131-135 leave no state behind)
num_runs == 5

\* lines 210-213
strategies == <<"opt_flops", "opt_size">>

\* lines 211-212: the path a strategy picks of an instance
get_path(name, paths) == IF name = "opt_flops" THEN paths.opt_flops ELSE paths.opt_size

Fmt3 == <<"b", "a", ",", "d", "c", "a", ",", "f", "e", "b", "-", ">", "k", "i">>
Fmt2 == <<"a", "b", ",", "b", "c", "-", ">", "a", "c">>
FmtNoArrow == <<"a", "b", ",", "b", "c">>

Shapes2 == << <<2, 3>>, <<3, 2>> >>
Shapes3 == << <<2, 2>>, <<2, 2, 2>>, <<2, 2, 2>> >>

\* instance files main may load: well-formed ones, and one for each way a
\* file can disagree with itself
InstancePool == {
    [name |-> "three", format_string_colmajor |-> Fmt3, shapes_colmajor |-> Shapes3,
     dtype |-> "float64", num_tensors |-> 3,
     paths |-> [opt_flops |-> << <<1, 2>>, <<0, 1>> >>, opt_size |-> << <<0, 1>>, <<1, 0>> >>]],
    [name |-> "two", format_string_colmajor |-> Fmt2, shapes_colmajor |-> Shapes2,
     dtype |-> "complex128", num_tensors |-> 2,
     paths |-> [opt_flops |-> << <<0, 1>> >>, opt_size |-> << <<1, 0>> >>]],
    [name |-> "declared_three", format_string_colmajor |-> Fmt2, shapes_colmajor |-> Shapes2,
     dtype |-> "float64", num_tensors |-> 3,
     paths |-> [opt_flops |-> << <<0, 1>> >>, opt_size |-> << <<0, 1>> >>]],
    [name |-> "three_shapes", format_string_colmajor |-> Fmt2, shapes_colmajor |-> Shapes3,
     dtype |-> "float64", num_tensors |-> 2,
     paths |-> [opt_flops |-> << <<0, 1>> >>, opt_size |-> << <<0, 1>> >>]],
    [name |-> "no_arrow", format_string_colmajor |-> FmtNoArrow, shapes_colmajor |-> Shapes2,
     dtype |-> "float64", num_tensors |-> 2,
     paths |-> [opt_flops |-> << <<0, 1>> >>, opt_size |-> << <<0, 1>> >>]],
    [name |-> "short_path", format_string_colmajor |-> Fmt3, shapes_colmajor |-> Shapes3,
     dtype |-> "float64", num_tensors |-> 3,
     paths |-> [opt_flops |-> << <<0, 1>> >>, opt_size |-> << <<0, 1>>, <<0, 1>>, <<0, 1>> >>]],
    [name |-> "int32", format_string_colmajor |-> Fmt2, shapes_colmajor |-> Shapes2,
     dtype |-> "int32", num_tensors |-> 2,
     paths |-> [opt_flops |-> << <<0, 1>> >>, opt_size |-> << <<0, 1>> >>]] }

\* run_instance's locals; stage is how far the call has come
NoRun == [stage |-> "none", input_indices |-> <<>>, output_indices |-> <<>>,
          root |-> NoNode, median |-> 0]

instance == instances[iIdx]
strategy_name == strategies[sIdx]
path_meta == get_path(strategy_name, instance.paths)

MainInit ==
    /\ instances \in SeqsUpTo(InstancePool, MaxInstances)
    /\ sIdx = 1
    /\ iIdx = 1
    /\ run = NoRun
    /\ out = <<>>
    /\ mpc = "banner"
    /\ mwhy = "none"

MainIdle ==
    /\ instances = <<>>
    /\ sIdx = 1
    /\ iIdx = 1
    /\ run = NoRun
    /\ out = <<>>
    /\ mpc = "idle"
    /\ mwhy = "none"

others == <<parseVars, treeVars, benchVars, microVars>>

\* lines 199-208: the report's banner
MainBanner ==
    /\ mpc = "banner"
    /\ out' = Append(out, [kind |-> "banner", strategy |-> "", instance |-> 0])
    /\ sIdx' = 1
    /\ mpc' = "strategy"
    /\ UNCHANGED <<instances, iIdx, run, mwhy, others>>

\* lines 215-222: the next strategy and its header, or the end of main
StrategyLoop ==
    /\ mpc = "strategy"
    /\ IF sIdx > Len(strategies)
       THEN /\ mpc' = "done"
            /\ UNCHANGED <<out, iIdx>>
       ELSE /\ out' = Append(out, [kind |-> "strategy", strategy |-> strategy_name,
                                   instance |-> 0])
            /\ iIdx' = 1
            /\ mpc' = "instance"
    /\ UNCHANGED <<instances, sIdx, run, mwhy, others>>

\* the slip of printing the strategy's header with every instance
InstanceLoopHeader ==
    /\ mpc = "instance"
    /\ IF iIdx > Len(instances)
       THEN /\ sIdx' = sIdx + 1
            /\ mpc' = "strategy"
            /\ UNCHANGED <<run, out>>
       ELSE /\ run' = [NoRun EXCEPT !.stage = "called"]
            /\ out' = Append(out, [kind |-> "strategy", strategy |-> strategy_name,
                                   instance |-> 0])
            /\ mpc' = "run_instance"
            /\ UNCHANGED sIdx
    /\ UNCHANGED <<instances, iIdx, mwhy, others>>

\* lines 224-226: the next instance and the call of run_instance, or the next strategy
InstanceLoop ==
    /\ mpc = "instance"
    /\ IF iIdx > Len(instances)
       THEN /\ sIdx' = sIdx + 1
            /\ mpc' = "strategy"
            /\ UNCHANGED run
       ELSE /\ run' = [NoRun EXCEPT !.stage = "called"]
            /\ mpc' = "run_instance"
            /\ UNCHANGED sIdx
    /\ UNCHANGED <<instances, iIdx, out, mwhy, others>>

\* the slip of leaving out the operand count assertion
RunParseNoAssert ==
    /\ mpc = "run_instance"
    /\ run.stage = "called"
    /\ LET r == parse_format_string(instance.format_string_colmajor)
       IN  IF ~r.ok
           THEN /\ mpc' = "panicked"
                /\ mwhy' = "no_arrow"
                /\ UNCHANGED run
           ELSE /\ run' = [run EXCEPT !.stage = "parsed",
                                      !.input_indices = r.input_indices,
                                      !.output_indices = r.output_indices]
                /\ UNCHANGED <<mpc, mwhy>>
    /\ UNCHANGED <<instances, sIdx, iIdx, out, others>>

\* lines 117-122: the format string is parsed and the operand count asserted
RunParse ==
    /\ mpc = "run_instance"
    /\ run.stage = "called"
    /\ LET r == parse_format_string(instance.format_string_colmajor)
       IN  IF ~r.ok
           THEN /\ mpc' = "panicked"
                /\ mwhy' = "no_arrow"
                /\ UNCHANGED run
           ELSE IF Len(r.input_indices) /= instance.num_tensors
           THEN /\ mpc' = "panicked"
                /\ mwhy' = "count_mismatch"
                /\ run' = [run EXCEPT !.input_indices = r.input_indices,
                                      !.output_indices = r.output_indices]
           ELSE /\ run' = [run EXCEPT !.stage = "parsed",
                                      !.input_indices = r.input_indices,
                                      !.output_indices = r.output_indices]
                /\ UNCHANGED <<mpc, mwhy>>
    /\ UNCHANGED <<instances, sIdx, iIdx, out, others>>

\* lines 124-128: build_contraction_tree is invoked and the code assembled
RunBuild ==
    /\ mpc = "run_instance"
    /\ run.stage = "parsed"
    /\ LET b == build_contraction_tree(run.input_indices, path_meta)
       IN  IF b.panic /= "none"
           THEN /\ mpc' = "panicked"
                /\ mwhy' = b.panic
                /\ run' = [run EXCEPT !.stage = "building"]
           ELSE /\ run' = [run EXCEPT !.stage = "built", !.root = b.node]
                /\ UNCHANGED <<mpc, mwhy>>
    /\ UNCHANGED <<instances, sIdx, iIdx, out, others>>

\* lines 93-114: create_operands panics on a dtype it does not know
DtypeKnown(dtype) == dtype \in {"float64", "complex128"}

\* lines 130-150: the warmup and timed runs; evaluate is the engine's, and its
\* Result is unwrapped
RunEvaluate ==
    /\ mpc = "run_instance"
    /\ run.stage = "built"
    /\ IF ~DtypeKnown(instance.dtype)
       THEN /\ mpc' = "panicked"
            /\ mwhy' = "unsupported_dtype"
            /\ UNCHANGED run
       ELSE \/ /\ mpc' = "panicked"
               /\ mwhy' = "evaluate_err"
               /\ UNCHANGED run
            \/ \E durations \in Readings(num_runs) :
                  /\ run' = [run EXCEPT !.stage = "returned",
                                        !.median = SortSeq(durations)[(Len(durations) \div 2) + 1]]
                  /\ UNCHANGED <<mpc, mwhy>>
    /\ UNCHANGED <<instances, sIdx, iIdx, out, others>>

\* lines 227-234: the instance's row
PrintRow ==
    /\ mpc = "run_instance"
    /\ run.stage = "returned"
    /\ out' = Append(out, [kind |-> "row", strategy |-> strategy_name, instance |-> iIdx])
    /\ iIdx' = iIdx + 1
    /\ run' = NoRun
    /\ mpc' = "instance"
    /\ UNCHANGED <<instances, sIdx, mwhy, others>>

(***************************************************************************)
(* step408_bench.rs: bench                                                 *)
(***************************************************************************)
NoStats == [med |-> 0, q1 |-> 0, q3 |-> 0, iqr |-> 0]

\* lines 28-31: the rank reads of the sorted samples and the returned pair
BenchStats(sorted) ==
    LET med == sorted[(Len(sorted) \div 2) + 1]
        q1 == sorted[(Len(sorted) \div 4) + 1]
        q3 == sorted[((3 * Len(sorted)) \div 4) + 1]
    IN  [med |-> med, q1 |-> q1, q3 |-> q3, iqr |-> q3 - q1]

\* lines 27-31 on the recorded samples
bench(ts) == BenchStats(SortSeq(ts))

BenchInit ==
    /\ warmup \in 0..MaxWarmup
    /\ nruns \in 0..MaxRuns
    /\ warmed = 0
    /\ times = <<>>
    /\ stats = NoStats
    /\ bpc = "running"

BenchIdle ==
    /\ warmup = 0
    /\ nruns = 0
    /\ warmed = 0
    /\ times = <<>>
    /\ stats = NoStats
    /\ bpc = "idle"

notBench == <<parseVars, treeVars, mainVars, microVars>>

\* lines 18-20: one warmup call of f
BenchWarm ==
    /\ bpc = "running"
    /\ warmed < warmup
    /\ warmed' = warmed + 1
    /\ UNCHANGED <<warmup, nruns, times, stats, bpc, notBench>>

\* lines 22-26: one measured call of f, its elapsed time pushed
BenchRun ==
    /\ bpc = "running"
    /\ warmed = warmup
    /\ Len(times) < nruns
    /\ \E elapsed \in Samples : times' = Append(times, elapsed)
    /\ UNCHANGED <<warmup, nruns, warmed, stats, bpc, notBench>>

\* lines 27-31: the sort and the rank reads; times[0] of no samples panics
BenchFinish ==
    /\ bpc = "running"
    /\ warmed = warmup
    /\ Len(times) = nruns
    /\ times' = SortSeq(times)
    /\ IF times' = <<>>
       THEN /\ bpc' = "panicked"
            /\ UNCHANGED stats
       ELSE /\ stats' = BenchStats(times')
            /\ bpc' = "returned"
    /\ UNCHANGED <<warmup, nruns, warmed, notBench>>

(***************************************************************************)
(* step408_bench.rs: main                                                  *)
(***************************************************************************)
\* line 36: nruns (the warmup runs of line 35 leave no state behind)
MicroRuns == 15

\* lines 49-51
ia == <<"c", "a", "x", "y", "d", "e", "f", "g", "h", "i", "z", "j", "b">>
ib == <<"h", "k", "l", "i", "c", "x", "m", "n", "o", "p", "d", "q",
        "f", "r", "s", "t", "y", "j", "u", "z", "g", "v", "w", "e">>
ic == <<"a", "b", "k", "l", "w", "m", "n", "o", "p", "q", "r", "s", "t", "u", "v", "x", "y", "z">>

\* a slip of the pen in the literal: 4 written twice, 5 lost
right_perm_slip == <<4, 10, 23, 12, 20, 0, 3, 17, 1, 2, 6, 7, 8, 9, 11, 13, 14, 15, 18, 21, 22,
                     4, 16, 19>>

\* lines 72-74
right_perm == <<4, 10, 23, 12, 20, 0, 3, 17, 1, 2, 6, 7, 8, 9, 11, 13, 14, 15, 18, 21, 22,
                5, 16, 19>>

\* the literal in batch, contracted, free order
left_perm_batch_first == <<2, 3, 10, 0, 4, 5, 6, 7, 8, 9, 11, 1, 12>>

\* line 88
left_perm == <<1, 12, 0, 4, 5, 6, 7, 8, 9, 11, 2, 3, 10>>

RECURSIVE Pow2(_)
Pow2(k) == IF k = 0 THEN 1 ELSE 2 * Pow2(k - 1)

\* StridedArray::col_major of d dimensions of size 2: the strides
ColMajorStrides(d) == [k \in 1..d |-> Pow2(k - 1)]

\* the strides of the view permuted(perm): dimension k is the old perm[k]
PermutedStrides(strides, perm) == [k \in 1..Len(perm) |-> strides[perm[k] + 1]]

\* lines 105-106: perm.iter().map(|&i| labels[i]).collect()
Relabel(perm, labels) == [k \in 1..Len(perm) |-> labels[perm[k] + 1]]

MicroInit ==
    /\ upc = "full"
    /\ meds = [full |-> 0, copy_b |-> 0, copy_a |-> 0, gemm |-> 0]
    /\ b_perm = <<>>
    /\ a_perm = <<>>
    /\ ia_canon = <<>>
    /\ ib_canon = <<>>

MicroIdle ==
    /\ upc = "idle"
    /\ meds = [full |-> 0, copy_b |-> 0, copy_a |-> 0, gemm |-> 0]
    /\ b_perm = <<>>
    /\ a_perm = <<>>
    /\ ia_canon = <<>>
    /\ ib_canon = <<>>

notMicro == <<parseVars, treeVars, mainVars, benchVars>>

\* lines 61-68: the full einsum2 timed by bench(.., warmup, nruns)
MicroFull ==
    /\ upc = "full"
    /\ \E ts \in Readings(MicroRuns) : meds' = [meds EXCEPT !.full = bench(ts).med]
    /\ upc' = "permute_b"
    /\ UNCHANGED <<b_perm, a_perm, ia_canon, ib_canon, notMicro>>

\* lines 72-79: B's view in canonical order
MicroPermuteB ==
    /\ upc = "permute_b"
    /\ b_perm' = PermutedStrides(ColMajorStrides(Len(ib)), right_perm)
    /\ upc' = "copy_b"
    /\ UNCHANGED <<meds, a_perm, ia_canon, ib_canon, notMicro>>

\* lines 81-85: the copy of B timed
MicroCopyB ==
    /\ upc = "copy_b"
    /\ \E ts \in Readings(MicroRuns) : meds' = [meds EXCEPT !.copy_b = bench(ts).med]
    /\ upc' = "permute_a"
    /\ UNCHANGED <<b_perm, a_perm, ia_canon, ib_canon, notMicro>>

\* lines 88-89: A's view in canonical order
MicroPermuteA ==
    /\ upc = "permute_a"
    /\ a_perm' = PermutedStrides(ColMajorStrides(Len(ia)), left_perm)
    /\ upc' = "copy_a"
    /\ UNCHANGED <<meds, b_perm, ia_canon, ib_canon, notMicro>>

\* lines 91-95: the copy of A timed
MicroCopyA ==
    /\ upc = "copy_a"
    /\ \E ts \in Readings(MicroRuns) : meds' = [meds EXCEPT !.copy_a = bench(ts).med]
    /\ upc' = "canon"
    /\ UNCHANGED <<b_perm, a_perm, ia_canon, ib_canon, notMicro>>

\* lines 99-106: the contiguous copies, and the labels in canonical order
MicroCanon ==
    /\ upc = "canon"
    /\ ia_canon' = Relabel(left_perm, ia)
    /\ ib_canon' = Relabel(right_perm, ib)
    /\ upc' = "gemm"
    /\ UNCHANGED <<meds, b_perm, a_perm, notMicro>>

\* lines 108-115: einsum2 on the contiguous operands timed
MicroGemm ==
    /\ upc = "gemm"
    /\ \E ts \in Readings(MicroRuns) : meds' = [meds EXCEPT !.gemm = bench(ts).med]
    /\ upc' = "summary"
    /\ UNCHANGED <<b_perm, a_perm, ia_canon, ib_canon, notMicro>>

\* lines 117-122: the summary is printed and main returns
MicroSummary ==
    /\ upc = "summary"
    /\ upc' = "done"
    /\ UNCHANGED <<meds, b_perm, a_perm, ia_canon, ib_canon, notMicro>>

(***************************************************************************)
(* Specifications                                                          *)
(***************************************************************************)
\* main.rs's main
Init == MainInit /\ ParseIdle /\ TreeIdle /\ BenchIdle /\ MicroIdle
Next ==
    \/ MainBanner
    \/ StrategyLoop
    \/ InstanceLoop
    \/ RunParse
    \/ RunBuild
    \/ RunEvaluate
    \/ PrintRow
Spec == Init /\ [][Next]_vars

\* parse_format_string on every short string
InitParse == ParseInit /\ TreeIdle /\ MainIdle /\ BenchIdle /\ MicroIdle
SpecParse == InitParse /\ [][Parse]_vars

\* build_contraction_tree on every short path
TreeNext == Step \/ EndOfPath
InitTree == TreeInit /\ ParseIdle /\ MainIdle /\ BenchIdle /\ MicroIdle
SpecTree == InitTree /\ [][TreeNext]_vars

\* bench on every short run of samples
BenchNext == BenchWarm \/ BenchRun \/ BenchFinish
InitBench == BenchInit /\ ParseIdle /\ TreeIdle /\ MainIdle /\ MicroIdle
SpecBench == InitBench /\ [][BenchNext]_vars

\* step408_bench.rs's main
MicroNext ==
    \/ MicroFull
    \/ MicroPermuteB
    \/ MicroCopyB
    \/ MicroPermuteA
    \/ MicroCopyA
    \/ MicroCanon
    \/ MicroGemm
    \/ MicroSummary
InitMicro == MicroInit /\ ParseIdle /\ TreeIdle /\ MainIdle /\ BenchIdle
SpecMicro == InitMicro /\ [][MicroNext]_vars

(***************************************************************************)
(* Properties of build_contraction_tree (SpecTree)                         *)
(***************************************************************************)
RECURSIVE LeafIndices(_)
LeafIndices(t) ==
    IF t.kind = "Leaf" THEN <<t.tensor_index>>
    ELSE IF t.kind = "Contract" THEN LeafIndices(t.args[1]) \o LeafIndices(t.args[2])
    ELSE <<>>

RECURSIVE CountContract(_)
CountContract(t) ==
    IF t.kind = "Contract"
    THEN 1 + CountContract(t.args[1]) + CountContract(t.args[2])
    ELSE 0

\* every node is a Leaf of the given operands or a Contract of two such nodes
RECURSIVE WellShaped(_, _)
WellShaped(t, ii) ==
    IF t.kind = "Leaf"
    THEN t.tensor_index \in 0..(Len(ii) - 1) /\ t.ids = ii[t.tensor_index + 1]
    ELSE /\ t.kind = "Contract"
         /\ Len(t.args) = 2
         /\ WellShaped(t.args[1], ii)
         /\ WellShaped(t.args[2], ii)

Lo(pr) == IF pr[1] <= pr[2] THEN pr[1] ELSE pr[2]
Hi(pr) == IF pr[1] <= pr[2] THEN pr[2] ELSE pr[1]

\* a pair of two distinct positions of the worklist ns
WellFormedPair(pr, ns) == pr[1] /= pr[2] /\ Hi(pr) < Len(ns)

\* C1: a tree that build_contraction_tree returns for n operands has n leaves, whose
\* tensor_index values are 0..n-1 each once, and n-1 Contract nodes of two children
\* each; and the call fails only on a pair that is not two distinct positions of the
\* worklist or on a path whose length is not n-1, so every well-formed path of n-1
\* pairs returns such a tree.
C1_TreeShape ==
    LET n == Len(input_indices)
    IN  /\ tpc = "returned" =>
              /\ Len(LeafIndices(result)) = n
              /\ Range(LeafIndices(result)) = 0..(n - 1)
              /\ CountContract(result) = n - 1
              /\ WellShaped(result, input_indices)
        /\ (tpc = "panicked" /\ why = "remove_j") => Hi(Last(path)) >= Len(nodes)
        /\ (tpc = "panicked" /\ why = "remove_i") => Last(path)[1] = Last(path)[2]
        /\ (tpc = "panicked" /\ why = "assert_len") => Len(path) /= n - 1

\* C1's case: three operands and a tree returned for them
C1_Witness ==
    /\ tpc = "returned"
    /\ Len(input_indices) = 3
    /\ CountContract(result) = 2

\* C2: while the loop runs the worklist holds n minus the number of pairs processed
\* (each pair takes exactly one off); a tree is returned only for a path of n-1
\* pairs, the worklist then holding that one node; and every other call fails by
\* the final assertion or by a removal out of range.
C2_LengthAndFailure ==
    LET n == Len(input_indices)
    IN  /\ tpc = "loop" => Len(nodes) = n - Len(path)
        /\ tpc = "returned" => (Len(path) = n - 1 /\ nodes = <<>> /\ result /= NoNode)
        /\ tpc = "panicked" => (why \in {"assert_len", "remove_j", "remove_i"} /\ result = NoNode)
        /\ Len(path) > n - 1 => (tpc = "panicked" /\ why \in {"remove_j", "remove_i"})
        /\ (tpc = "panicked" /\ Len(path) < n - 1 /\ why = "assert_len") => Len(nodes) > 1

\* C2's case: a path that ends too early fails by the assertion after some pairs
C2_Witness ==
    /\ tpc = "panicked"
    /\ why = "assert_len"
    /\ Len(path) >= 1
    /\ Len(path) < Len(input_indices) - 1

\* a turn of the loop that processed the pair Last(path') without failing
Stepped == tpc = "loop" /\ tpc' = "loop" /\ Len(path') = Len(path) + 1

RECURSIVE Others(_, _, _, _)
Others(ns, i, j, k) ==
    IF k > Len(ns) THEN <<>>
    ELSE IF k - 1 = i \/ k - 1 = j THEN Others(ns, i, j, k + 1)
    ELSE <<ns[k]>> \o Others(ns, i, j, k + 1)

ExampleTree ==
    Contract(Leaf(<<"b", "a">>, 0),
             Contract(Leaf(<<"d", "c", "a">>, 1), Leaf(<<"f", "e", "b">>, 2)))

\* C10: a step on two distinct positions i < j combines exactly the entries that
\* were at i and j, keeps every other entry in its previous order and appends the
\* new node last; and "ba,dca,feb" with path [[1,2],[0,1]] gives
\* Contract(Leaf 0, Contract(Leaf 1, Leaf 2)).
C10_StepFrame ==
    /\ [][(Stepped /\ WellFormedPair(Last(path'), nodes)) =>
            LET i == Lo(Last(path'))
                j == Hi(Last(path'))
            IN  /\ Len(nodes') = Len(nodes) - 1
                /\ SubSeq(nodes', 1, Len(nodes') - 1) = Others(nodes, i, j, 1)
                /\ Last(nodes').kind = "Contract"
                /\ Range(Last(nodes').args) = {nodes[i + 1], nodes[j + 1]}]_vars
    /\ []((/\ tpc = "returned"
           /\ Len(input_indices) = 3
           /\ path = << <<1, 2>>, <<0, 1>> >>) => result = ExampleTree)

\* C10's case: the example's path was processed and its tree returned
C10_Witness ==
    /\ tpc = "returned"
    /\ input_indices = << <<"b", "a">>, <<"d", "c", "a">>, <<"f", "e", "b">> >>
    /\ path = << <<1, 2>>, <<0, 1>> >>
    /\ result = ExampleTree

(***************************************************************************)
(* Properties of parse_format_string (SpecParse)                           *)
(***************************************************************************)
ArrowsOf(str) == {k \in 1..(Len(str) - 1) : str[k] = "-" /\ str[k + 1] = ">"}

MinOf(S) == CHOOSE x \in S : \A y \in S : x <= y

CommasIn(str) == Cardinality({k \in 1..Len(str) : str[k] = ","})

\* the pieces put together again, a comma between each two
RECURSIVE JoinComma(_)
JoinComma(pieces) ==
    IF pieces = <<>> THEN <<>>
    ELSE IF Len(pieces) = 1 THEN pieces[1]
    ELSE pieces[1] \o <<",">> \o JoinComma(Tail(pieces))

\* C4: a string with no "->" makes parse_format_string fail and return nothing; a
\* string L->R, split at its first "->", gives one label sequence per
\* comma-separated piece of L in order (commas of L plus one of them, none holding
\* a comma, L when joined by commas) and the characters of R as the output.
C4_ParseSplits ==
    ppc /= "call" =>
        IF ArrowsOf(s) = {}
        THEN ppc = "panicked" /\ parsed = NoParse
        ELSE LET k == MinOf(ArrowsOf(s))
                 L == SubSeq(s, 1, k - 1)
                 R == SubSeq(s, k + 2, Len(s))
             IN  /\ ppc = "returned"
                 /\ parsed.ok
                 /\ parsed.output_indices = R
                 /\ Len(parsed.input_indices) = CommasIn(L) + 1
                 /\ \A m \in 1..Len(parsed.input_indices) :
                        "," \notin Range(parsed.input_indices[m])
                 /\ JoinComma(parsed.input_indices) = L

\* C4's case: two operands parsed, the second one and the output empty
C4_Witness ==
    /\ ppc = "returned"
    /\ s = <<"a", ",", "-", ">">>
    /\ parsed.input_indices = << <<"a">>, <<>> >>
    /\ parsed.output_indices = <<>>

(***************************************************************************)
(* Properties of main.rs's main and run_instance (Spec)                    *)
(***************************************************************************)
\* build_contraction_tree has been invoked by the running call of run_instance
TreeInvoked == run.stage \in {"building", "built", "returned"}

\* the format string of the running call has been parsed
FormatParsed == run.stage /= "none" /\ run.input_indices /= <<>>

\* C5 as stated: build_contraction_tree is invoked only when the number of parsed
\* label sequences equals both num_tensors and the number of shapes supplied.
C5_CountsCheckedBeforeTree ==
    TreeInvoked =>
        /\ Len(run.input_indices) = instance.num_tensors
        /\ Len(run.input_indices) = Len(instance.shapes_colmajor)

\* C5 amended: a parsed operand count other than num_tensors makes run_instance
\* fail before build_contraction_tree is invoked; the number of shapes is not
\* compared with it.
C5_DeclaredCountCheckedBeforeTree ==
    /\ TreeInvoked => Len(run.input_indices) = instance.num_tensors
    /\ (FormatParsed /\ Len(run.input_indices) /= instance.num_tensors) =>
          /\ mpc = "panicked"
          /\ mwhy = "count_mismatch"
          /\ run.stage = "called"
          /\ run.root = NoNode

\* C5's case: the parsed count differs from num_tensors and the call has failed
C5_Witness ==
    /\ mpc = "panicked"
    /\ mwhy = "count_mismatch"
    /\ Len(run.input_indices) = 2
    /\ instance.num_tensors = 3
    /\ ~TreeInvoked

IsRow(e) == e.kind = "row"
IsHeader(e) == e.kind = "strategy"

\* a strategy's group: its name once, then a row per instance in instance order
Group(name, K) ==
    <<[kind |-> "strategy", strategy |-> name, instance |-> 0]>>
    \o [k \in 1..K |-> [kind |-> "row", strategy |-> name, instance |-> k]]

\* C9: when main ends, 2*K rows have been printed for the K instances, as one
\* group per strategy: the strategy's name once, then its K rows in instance order.
C9_RowsGrouped ==
    mpc = "done" =>
        LET K == Len(instances)
        IN  /\ Len(SelectSeq(out, IsRow)) = 2 * K
            /\ Len(SelectSeq(out, IsHeader)) = 2
            /\ \E first \in Range(strategies), second \in Range(strategies) :
                  /\ first /= second
                  /\ Tail(out) = Group(first, K) \o Group(second, K)

\* C9's case: main ended after two instances ran under both strategies
C9_Witness ==
    /\ mpc = "done"
    /\ Len(instances) = 2
    /\ Len(SelectSeq(out, IsRow)) = 4

(***************************************************************************)
(* Properties of bench (SpecBench)                                         *)
(***************************************************************************)
\* C8: bench returning for at least 4 samples has sorted them and read
\* Q1 <= median <= Q3, so the returned spread Q3 - Q1 is not negative.
C8_QuartilesOrdered ==
    (bpc = "returned" /\ nruns >= 4) =>
        /\ IsSorted(times)
        /\ Len(times) = nruns
        /\ stats.q1 <= stats.med
        /\ stats.med <= stats.q3
        /\ stats.iqr = stats.q3 - stats.q1
        /\ stats.iqr >= 0

\* C8's case: samples recorded out of order, with three different quartiles
C8_Witness ==
    /\ bpc = "returned"
    /\ nruns >= 4
    /\ stats.q1 < stats.med
    /\ stats.med < stats.q3

(***************************************************************************)
(* Properties of the micro-benchmark's permutations (SpecMicro)            *)
(***************************************************************************)
\* the group of a label of one operand, given the other operand and the output
Group3(label, other, outp) ==
    IF label \in Range(other)
    THEN IF label \in Range(outp) THEN "batch" ELSE "contracted"
    ELSE IF label \in Range(outp) THEN "free" ELSE "reduced"

\* the position of a group in an order of groups, 0 if it is not in it
PlaceIn(order, g) ==
    IF g \in Range(order) THEN CHOOSE k \in 1..Len(order) : order[k] = g ELSE 0

\* the labels fall into the groups of order, group after group
InBlocks(labels, other, outp, order) ==
    /\ \A k \in 1..Len(labels) : PlaceIn(order, Group3(labels[k], other, outp)) > 0
    /\ \A k \in 1..(Len(labels) - 1) :
          PlaceIn(order, Group3(labels[k], other, outp))
             <= PlaceIn(order, Group3(labels[k + 1], other, outp))

Canonised == upc \in {"gemm", "summary", "done"}

\* C6 as stated: both operands in the order batch, contracted, free.
C6_BatchContractedFree ==
    Canonised =>
        /\ InBlocks(ia_canon, ib, ic, <<"batch", "contracted", "free">>)
        /\ InBlocks(ib_canon, ia, ic, <<"batch", "contracted", "free">>)

\* C6 amended: each group is one contiguous block, A's dimensions in the order
\* free, contracted, batch and B's in the order contracted, free, batch.
C6_BlocksInEngineOrder ==
    Canonised =>
        /\ InBlocks(ia_canon, ib, ic, <<"free", "contracted", "batch">>)
        /\ InBlocks(ib_canon, ia, ic, <<"contracted", "free", "batch">>)

\* C6's case: the labels in canonical order have been computed, all three groups
\* occurring in each operand
C6_Witness ==
    /\ upc = "done"
    /\ {Group3(ia_canon[k], ib, ic) : k \in 1..Len(ia_canon)} = {"batch", "contracted", "free"}
    /\ {Group3(ib_canon[k], ia, ic) : k \in 1..Len(ib_canon)} = {"batch", "contracted", "free"}

CountOf(q, x) == Cardinality({k \in 1..Len(q) : q[k] = x})

\* q holds every index 0..d-1 exactly once
IsBijection(q, d) == Len(q) = d /\ \A x \in 0..(d - 1) : CountOf(q, x) = 1

\* a and b hold the same elements the same number of times
Rearranged(a, b) ==
    /\ Len(a) = Len(b)
    /\ \A x \in Range(a) \cup Range(b) : CountOf(a, x) = CountOf(b, x)

\* C7: left_perm holds each of 0..12 once and right_perm each of 0..23 once, the
\* views they give hold each stride of the operand once, and ia_canon and ib_canon
\* are rearrangements of ia and ib.
C7_PermsAreBijections ==
    /\ upc \notin {"idle", "full", "permute_b"} =>
          Rearranged(b_perm, ColMajorStrides(24))
    /\ upc \notin {"idle", "full", "permute_b", "copy_b", "permute_a"} =>
          Rearranged(a_perm, ColMajorStrides(13))
    /\ Canonised =>
          /\ IsBijection(left_perm, 13)
          /\ IsBijection(right_perm, 24)
          /\ Rearranged(ia_canon, ia)
          /\ Rearranged(ib_canon, ib)

\* C7's case: both relabelled sequences have been computed
C7_Witness ==
    /\ upc = "gemm"
    /\ Len(ia_canon) = 13
    /\ Len(ib_canon) = 24

====
